---- MODULE Spec2Model ----
(***************************************************************************)
(* WavCaps dataset preparation (aac_datasets/datasets/wavcaps.py).         *)
(*                                                                         *)
(* Spec     : one or two calls of _prepare_wavcaps_dataset on a root whose *)
(*            filesystem state is drawn in Init; the first call may be     *)
(*            interrupted (process killed) and the call repeated.          *)
(* SpecLoad : one call of _load_wavcaps_dataset on per-source JSON content *)
(*            drawn in InitLoad.                                           *)
(***************************************************************************)
EXTENDS Integers, Sequences, FiniteSets, TLC

\* Number of audio (.flac) members of each source's archive.
NumMembers == 2
\* Largest number of records of one source's JSON file.
MaxRecords == 2

(***************************************************************************)
(* Sources, subsets, expected sizes                                        *)
(***************************************************************************)

\* WavCaps.SOURCES, in the order of EXPECTED_SIZES.keys()
SourceSeq == <<"AudioSet_SL", "BBC_Sound_Effects", "FreeSound", "SoundBible">>

SOURCES == {SourceSeq[i] : i \in 1..Len(SourceSeq)}

\* WavCapsCard.SUBSETS
SUBSETS == {"as", "bbc", "fsd", "sb"}

\* The subset names a caller passes: the declared ones, the combined one that
\* _use_source knows, and one that it does not know.
SubsetArgs == SUBSETS \cup {"as_bbc_sb", "unknown"}

\* The audio members of an archive are numbered 1..NumMembers; 0 names an entry
\* of a directory that is no member of the archive.
Members == 1..NumMembers

Names == 0..NumMembers

\* WavCaps.EXPECTED_SIZES, scaled: every source's expected file count is the
\* number of audio members of its archive.
EXPECTED_SIZES == [s \in SOURCES |-> NumMembers]

_use_source(source, subset) ==
    \/ source = "AudioSet_SL" /\ subset \in {"as", "as_bbc_sb"}
    \/ source = "BBC_Sound_Effects" /\ subset \in {"bbc", "as_bbc_sb"}
    \/ source = "FreeSound" /\ subset \in {"fsd"}
    \/ source = "SoundBible" /\ subset \in {"sb", "as_bbc_sb"}

\* [source for source in WavCaps.SOURCES if _use_source(source, subset)]
ActiveSeq(subset) == SelectSeq(SourceSeq, LAMBDA s : _use_source(s, subset))

Active(subset) == {s \in SOURCES : _use_source(s, subset)}

\* source_and_splitted
IsSplitted(s) == s # "SoundBible"

(***************************************************************************)
(* Repository files and ignore patterns.  A path is a sequence of tokens;  *)
(* "*" in a pattern matches any run of tokens, "/" included (fnmatch).     *)
(***************************************************************************)

MainZip == "main.zip"
PartZip == "part.z01"
MergedZip == "merged.zip"
OtherFile == "notes.txt"

ArchNames == {MainZip, PartZip, MergedZip, OtherFile}

\* name.endswith(".zip")
EndsWithZip(n) == n \in {MainZip, MergedZip}

\* ".z" in name
ContainsDotZ(n) == n \in {MainZip, PartZip, MergedZip}

\* The archive files the remote repository holds for a source.
RepoArchives(s) == IF IsSplitted(s) THEN {MainZip, PartZip} ELSE {MainZip}

\* The archive ZipFile opens: merged_zip_fpath
MergedName(s) == IF IsSplitted(s) THEN MergedZip ELSE MainZip

JsonStems(s) ==
    CASE s = "AudioSet_SL" -> {"as_final"}
      [] s = "BBC_Sound_Effects" -> {"bbc_final"}
      [] s = "FreeSound" -> {"fsd_final", "fsd_final_2s"}
      [] OTHER -> {"sb_final"}

JsonPath(s, stem) == <<"json_files", "/", s, "/", stem, ".json">>

ArchivePath(s, n) == <<"Zip_files", "/", s, "/", n>>

JsonPaths(s) == {JsonPath(s, stem) : stem \in JsonStems(s)}

ArchivePaths(s) == {ArchivePath(s, n) : n \in RepoArchives(s)}

RECURSIVE Matches(_, _)
Matches(pat, path) ==
    IF pat = <<>> THEN path = <<>>
    ELSE IF Head(pat) = "*"
         THEN \/ Matches(Tail(pat), path)
              \/ path # <<>> /\ Matches(pat, Tail(path))
         ELSE /\ path # <<>>
              /\ Head(path) = Head(pat)
              /\ Matches(Tail(pat), Tail(path))

\* ign_patterns: for every ignored source, f"json_files/{source}/*.json" and
\* "Zip_files/*"
IgnPatterns(subset) ==
    UNION {{<<"json_files", "/", s, "/", "*", ".json">>,
            <<"Zip_files", "/", "*">>}
           : s \in {x \in SOURCES : ~_use_source(x, subset)}}

Ignored(pats, path) == \E p \in pats : Matches(p, path)

(***************************************************************************)
(* Filesystem                                                              *)
(***************************************************************************)

\* One source's audio directory Audio/<source>: whether it exists, the entries
\* directly in it (tgt), whether the archive-internal sub-directory exists in it
\* (sub) and that sub-directory's entries (src); part: the entries whose content
\* is incomplete.
AbsentDir == [dir |-> FALSE, tgt |-> {}, sub |-> FALSE, src |-> {}, part |-> {}]

CompleteDir == [dir |-> TRUE, tgt |-> Members, sub |-> FALSE, src |-> {}, part |-> {}]

\* The directory states Init draws from: the directory absent, or any set of
\* entries in it, with or without the sub-directory, which holds any set of
\* archive members or one foreign entry.
AudioStates ==
    {AbsentDir}
    \cup {[dir |-> TRUE, tgt |-> t, sub |-> FALSE, src |-> {}, part |-> {}]
          : t \in SUBSET Names}
    \cup {[dir |-> TRUE, tgt |-> t, sub |-> TRUE, src |-> u, part |-> {}]
          : t \in SUBSET Names, u \in (SUBSET Members) \cup {{0}}}

\* os.listdir(audio_subset_dpath): the sub-directory is one entry
NumEntries(d) == Cardinality(d.tgt) + (IF d.sub THEN 1 ELSE 0)

LinkStates == {"none", "cur", "old", "dangling", "dir"}

\* The archive directory Zip_files/<source> after a fetch and a merge.
FullArch(s) == RepoArchives(s) \cup {MergedName(s), OtherFile}

\* The archive directory states Init draws from: fetched and merged, fetched and
\* never merged, and emptied of its archives by an earlier clean-up.
ArchStates(s) == {FullArch(s), RepoArchives(s) \cup {OtherFile}, {OtherFile}}

VARIABLES
    pc,               \* the step _prepare_wavcaps_dataset is about to take
    err,              \* the exception that ended the call, or "none"
    failedAt,         \* the step that raised it
    run,              \* 1: the first call, 2: the repeated call
    prev,             \* how the first call ended, once the call is repeated
    cur,              \* index in ActiveSeq(subset) of the source being prepared
    subset, verify_files, clean_archives, verbose,     \* arguments
    link,             \* what root/WavCaps is (LinkStates)
    audio,            \* the current snapshot's Audio/<source> directories
    arch,             \* the current snapshot's Zip_files/<source> directories
    badMerged,        \* sources whose merged archive is a truncated file
    progress_disabled,\* huggingface_hub's progress-bar switch
    ign_patterns,     \* the ignore patterns handed to snapshot_download
    link0, pbar0, startComplete,   \* the state when the call started
    startHealthy,     \* whether the first call, left alone, had what it needs
    fetchQuiet,       \* whether progress bars were off while the fetch ran
    logs,             \* what the call logged
    mergeCalls,       \* invocations of the merge tool in this call
    extracted,        \* <<source, member>> extracted in this call
    removed,          \* <<source, name>> archive files deleted in this call
    overwritten,      \* <<source, member>> target files replaced by the move
    loadPc, li, raw_data, json, loadSubset   \* _load_wavcaps_dataset

argVars == <<subset, verify_files, clean_archives, verbose>>

fsVars == <<link, audio, arch, badMerged>>

startVars == <<link0, pbar0, startComplete, startHealthy>>

histVars == <<logs, mergeCalls, extracted, removed, overwritten>>

loadVars == <<loadPc, li, raw_data, json, loadSubset>>

vars == <<pc, err, failedAt, run, prev, cur, argVars, fsVars, progress_disabled,
          ign_patterns, startVars, fetchQuiet, histVars, loadVars>>

\* The source the loop of lines 458-561 is at.
CurSource == ActiveSeq(subset)[cur]

\* The Audio/<source> directory reached through root/WavCaps: the link's target
\* is the current snapshot, an older snapshot (or a plain directory), whose
\* audio directories are fully extracted, or nothing.
VisibleAudio ==
    [s \in SOURCES |->
        IF link = "cur" THEN audio[s]
        ELSE IF link \in {"old", "dir"} THEN CompleteDir
        ELSE AbsentDir]

RECURSIVE IsPreparedFrom(_, _)
IsPreparedFrom(seq, dirs) ==
    IF seq = <<>> THEN [res |-> "true", src |-> "none"]
    ELSE LET s == Head(seq) IN
         IF ~dirs[s].dir THEN [res |-> "FileNotFoundError", src |-> s]
         ELSE IF EXPECTED_SIZES[s] # NumEntries(dirs[s])
              THEN [res |-> "false", src |-> s]
              ELSE IsPreparedFrom(Tail(seq), dirs)

\* _is_prepared: "true", "false" (after logging src) or the exception of
\* os.listdir on a directory that does not exist
_is_prepared(dirs, sub) == IsPreparedFrom(ActiveSeq(sub), dirs)

AllComplete(dirs, sub) == \A s \in Active(sub) : dirs[s] = CompleteDir

\* The root holds what a call needs to run to its end: the pre-flight check
\* passes, root/WavCaps is a link to a snapshot, every used source's archive is
\* there or can be merged, and no foreign entry sits at the archive-internal
\* subpath.
Healthy ==
    /\ _is_prepared(VisibleAudio, subset).res = "true"
    /\ link \in {"cur", "old"}
    /\ \A s \in Active(subset) :
          /\ MergedName(s) \in arch[s] \/ (IsSplitted(s) /\ RepoArchives(s) \subseteq arch[s])
          /\ audio[s].src \subseteq Members

(***************************************************************************)
(* _prepare_wavcaps_dataset                                                *)
(***************************************************************************)

LoadIdle ==
    /\ loadPc = "idle"
    /\ li = 0
    /\ raw_data = <<>>
    /\ json = <<>>
    /\ loadSubset = "none"

\* The filesystem before the call.  The directories of one active source are
\* drawn from every state; the other active sources are fully extracted and
\* merged; the sources the subset does not use hold their archives and no audio.
\* When root/WavCaps does not lead to the current snapshot or to an older one,
\* the call ends before it reads or writes the current snapshot, which is then
\* taken as not yet extracted.
InitFs ==
    /\ link \in LinkStates
    /\ \E v \in (IF Active(subset) = {} THEN {"none"} ELSE Active(subset)) :
       \E d \in (IF link \in {"cur", "old"} THEN AudioStates ELSE {AbsentDir}) :
       \E a \in (IF link \in {"cur", "old"} /\ v \in SOURCES
                 THEN ArchStates(v) ELSE {{OtherFile}}) :
          /\ audio = [s \in SOURCES |->
                        IF s = v THEN d
                        ELSE IF _use_source(s, subset) /\ link \in {"cur", "old"}
                             THEN CompleteDir
                             ELSE AbsentDir]
          /\ arch = [s \in SOURCES |-> IF s = v THEN a ELSE FullArch(s)]
    /\ badMerged = {}

InitPrep ==
    /\ pc = "precheck"
    /\ err = "none"
    /\ failedAt = "none"
    /\ run = 1
    /\ prev = "none"
    /\ cur = 1
    /\ subset \in SubsetArgs
    /\ verify_files \in BOOLEAN
    /\ clean_archives \in BOOLEAN
    /\ verbose \in {0, 1}
    /\ InitFs
    /\ progress_disabled \in BOOLEAN
    /\ ign_patterns = {}
    /\ link0 = link
    /\ pbar0 = progress_disabled
    /\ startComplete = AllComplete(VisibleAudio, subset)
    /\ startHealthy = Healthy
    /\ fetchQuiet = FALSE
    /\ logs = {}
    /\ mergeCalls = 0
    /\ extracted = {}
    /\ removed = {}
    /\ overwritten = {}

Init == InitPrep /\ LoadIdle

Raise(e) ==
    /\ pc' = "failed"
    /\ err' = e
    /\ failedAt' = pc

\* lines 386-387: the pre-flight check
PreCheck ==
    /\ pc = "precheck"
    /\ LET r == _is_prepared(VisibleAudio, subset) IN
       CASE r.res = "true" ->
              /\ pc' = "fetch"
              /\ UNCHANGED <<err, failedAt, logs>>
         [] r.res = "false" ->
              /\ Raise("NotPrepared")
              /\ logs' = logs \cup {<<"invalid_count", r.src>>}
         [] OTHER ->
              /\ Raise("FileNotFoundError")
              /\ UNCHANGED logs
    /\ UNCHANGED <<run, prev, cur, argVars, fsVars, progress_disabled, ign_patterns,
                   startVars, fetchQuiet, mergeCalls, extracted, removed,
                   overwritten, loadVars>>

\* What a download adds to Zip_files/<source>: the repository's archive files
\* that no ignore pattern matches.
Downloaded(pats, s) == {n \in RepoArchives(s) : ~Ignored(pats, ArchivePath(s, n))}

\* are_progress_bars_disabled(), line 405
Pbar_enabled == progress_disabled

\* lines 389-421: the ignore patterns and the snapshot fetch.  force: the
\* caller's flag (local_files_only = not force); ok: whether snapshot_download
\* returns or raises.
Fetch ==
    /\ pc = "fetch"
    /\ LET pats == IgnPatterns(subset)
           quiet == Pbar_enabled /\ verbose <= 0
           during == IF quiet THEN TRUE ELSE progress_disabled
       IN
       /\ ign_patterns' = pats
       /\ fetchQuiet' = during
       /\ \E force \in BOOLEAN, ok \in BOOLEAN :
            IF ok
            THEN /\ arch' = [s \in SOURCES |->
                               IF force THEN arch[s] \cup Downloaded(pats, s)
                               ELSE arch[s]]
                 /\ progress_disabled' = (IF quiet THEN FALSE ELSE during)
                 /\ pc' = "link"
                 /\ UNCHANGED <<err, failedAt>>
            ELSE /\ arch' = arch
                 /\ progress_disabled' = during
                 /\ Raise("FetchError")
    /\ UNCHANGED <<run, prev, cur, argVars, link, audio, badMerged, startVars,
                   histVars, loadVars>>

\* The step after the link: the loop over the used sources, or what follows it.
FirstStep == IF ActiveSeq(subset) = <<>> THEN "clean" ELSE "merge"

\* lines 431-443: the symbolic link root/WavCaps.  osp.exists follows the link.
LinkStep ==
    /\ pc = "link"
    /\ IF link \in {"cur", "old", "dir"}
       THEN IF link = "dir"
            THEN /\ Raise("NotSymlink")
                 /\ UNCHANGED <<link, logs>>
            ELSE IF link # "cur"
                 THEN /\ logs' = logs \cup {<<"link_replaced", "none">>}
                      /\ link' = "cur"
                      /\ pc' = FirstStep
                      /\ UNCHANGED <<err, failedAt>>
                 ELSE /\ pc' = FirstStep
                      /\ UNCHANGED <<link, logs, err, failedAt>>
       ELSE IF link = "none"
            THEN /\ link' = "cur"
                 /\ pc' = FirstStep
                 /\ UNCHANGED <<logs, err, failedAt>>
            ELSE /\ Raise("FileExistsError")
                 /\ UNCHANGED <<link, logs>>
    /\ UNCHANGED <<run, prev, cur, argVars, audio, arch, badMerged, progress_disabled,
                   ign_patterns, startVars, fetchQuiet, mergeCalls, extracted,
                   removed, overwritten, loadVars>>

\* The step after the last one of the loop body: the next source, or the end
\* of the loop.
NextSourcePc == IF cur < Len(ActiveSeq(subset)) THEN "merge" ELSE "clean"

\* Whether the merge tool can build the merged archive: the parts are there.
CanMerge(s) == RepoArchives(s) \subseteq arch[s]

\* line 470: is_splitted and not osp.isfile(merged_zip_fpath)
MergeNeeded(s) == IsSplitted(s) /\ MergedZip \notin arch[s]

\* lines 458-494: the merge of a split archive, then os.makedirs of the audio
\* directory.  A merge tool that fails leaves no merged archive.
Merge ==
    /\ pc = "merge"
    /\ LET s == CurSource IN
       IF MergeNeeded(s)
       THEN /\ mergeCalls' = mergeCalls + 1
            /\ IF CanMerge(s)
               THEN /\ arch' = [arch EXCEPT ![s] = @ \cup {MergedZip}]
                    /\ badMerged' = badMerged \ {s}
                    /\ audio' = [audio EXCEPT ![s].dir = TRUE]
                    /\ pc' = "extract"
                    /\ UNCHANGED <<err, failedAt>>
               ELSE /\ Raise("CalledProcessError")
                    /\ UNCHANGED <<arch, badMerged, audio>>
       ELSE /\ audio' = [audio EXCEPT ![s].dir = TRUE]
            /\ pc' = "extract"
            /\ UNCHANGED <<mergeCalls, arch, badMerged, err, failedAt>>
    /\ UNCHANGED <<run, prev, cur, argVars, link, progress_disabled, ign_patterns,
                   startVars, fetchQuiet, logs, extracted, removed, overwritten,
                   loadVars>>

\* os.listdir(src_root) if osp.isdir(src_root) else {}
SrcFound(d) == IF d.sub THEN d.src ELSE {}

\* lines 505-519: missing_subnames, by basename
Missing(d) == {m \in Members : m \notin SrcFound(d) /\ m \notin d.tgt}

\* lines 496-526: open the archive and extract the missing members
Extract ==
    /\ pc = "extract"
    /\ LET s == CurSource
           d == audio[s]
       IN
       IF MergedName(s) \notin arch[s]
       THEN /\ Raise("FileNotFoundError")
            /\ UNCHANGED <<audio, extracted>>
       ELSE IF s \in badMerged
       THEN /\ Raise("BadZipFile")
            /\ UNCHANGED <<audio, extracted>>
       ELSE /\ audio' = [audio EXCEPT ![s] =
                           [d EXCEPT !.sub = d.sub \/ Missing(d) # {},
                                     !.src = SrcFound(d) \cup Missing(d)]]
            /\ extracted' = extracted \cup {<<s, m>> : m \in Missing(d)}
            /\ pc' = "move"
            /\ UNCHANGED <<err, failedAt>>
    /\ UNCHANGED <<run, prev, cur, argVars, link, arch, badMerged, progress_disabled,
                   ign_patterns, startVars, fetchQuiet, logs, mergeCalls,
                   removed, overwritten, loadVars>>

\* lines 533-537: src_fpaths_to_move, by basename
ToMove(d) == {m \in Members : m \in SrcFound(d)}

\* lines 528-544: move what is at the archive-internal subpath into the audio
\* directory; os.rename replaces a file of the same name
Move ==
    /\ pc = "move"
    /\ LET s == CurSource
           d == audio[s]
       IN
       /\ audio' = [audio EXCEPT ![s] =
                      [d EXCEPT !.tgt = d.tgt \cup ToMove(d),
                                !.src = d.src \ ToMove(d)]]
       /\ overwritten' = overwritten \cup {<<s, m>> : m \in ToMove(d) \cap d.tgt}
    /\ pc' = "verify"
    /\ UNCHANGED <<err, failedAt, run, prev, cur, argVars, link, arch, badMerged,
                   progress_disabled, ign_patterns, startVars, fetchQuiet, logs,
                   mergeCalls, extracted, removed, loadVars>>

\* Invalids, were it the names by which the found set and the expected set
\* differ, either way.
InvalidsAnyDifference(d) ==
    (Members \ d.tgt) \cup (d.tgt \ Members) \cup (IF d.sub THEN {0} ELSE {})

\* lines 547-555: tgt_fnames_invalids, the expected names not found
Invalids(d) == {m \in Members : m \notin d.tgt}

\* lines 546-559: the verification
Verify ==
    /\ pc = "verify"
    /\ IF verify_files /\ Invalids(audio[CurSource]) # {}
       THEN Raise("MissingFiles")
       ELSE /\ pc' = "rmdir"
            /\ UNCHANGED <<err, failedAt>>
    /\ UNCHANGED <<run, prev, cur, argVars, fsVars, progress_disabled, ign_patterns,
                   startVars, fetchQuiet, histVars, loadVars>>

\* safe_rmdir(audio_subset_dpath, rm_root=False, error_on_non_empty_dir=True):
\* whether the sub-directory of the audio directory can be removed
SafeRmdirOk(d) == ~d.sub \/ d.src = {}

\* line 561: remove the emptied sub-directory, then go on to the next source
Rmdir ==
    /\ pc = "rmdir"
    /\ LET s == CurSource IN
       IF SafeRmdirOk(audio[s])
       THEN /\ audio' = [audio EXCEPT ![s].sub = FALSE]
            /\ pc' = NextSourcePc
            /\ cur' = IF cur < Len(ActiveSeq(subset)) THEN cur + 1 ELSE cur
            /\ UNCHANGED <<err, failedAt>>
       ELSE /\ Raise("ResidualDir")
            /\ UNCHANGED <<audio, cur>>
    /\ UNCHANGED <<run, prev, argVars, link, arch, badMerged, progress_disabled,
                   ign_patterns, startVars, fetchQuiet, histVars, loadVars>>

\* UsedSources, were it every source.
UsedSourcesAll(sub) == SOURCES

\* line 564: used_sources
UsedSources(sub) == Active(sub)

\* lines 570-572: the names the clean-up deletes
IsArchiveName(n) == EndsWithZip(n) \/ ContainsDotZ(n)

\* lines 563-576: delete the archives of the used sources
Clean ==
    /\ pc = "clean"
    /\ IF clean_archives
       THEN LET gone == {<<s, n>> \in UsedSources(subset) \X ArchNames :
                           n \in arch[s] /\ IsArchiveName(n)}
            IN
            /\ arch' = [s \in SOURCES |-> {n \in arch[s] : <<s, n>> \notin gone}]
            /\ removed' = removed \cup gone
            /\ logs' = IF verbose >= 1
                       THEN logs \cup {<<"removing", x[1]>> : x \in gone}
                       ELSE logs
       ELSE UNCHANGED <<arch, removed, logs>>
    /\ pc' = "done"
    /\ UNCHANGED <<err, failedAt, run, prev, cur, argVars, link, audio, badMerged,
                   progress_disabled, ign_patterns, startVars, fetchQuiet,
                   mergeCalls, extracted, overwritten, loadVars>>

(***************************************************************************)
(* Interruption of the first call (the process is killed) and the repeated *)
(* call with the same arguments                                            *)
(***************************************************************************)

Running == {"precheck", "fetch", "link", "merge", "extract", "move", "verify",
            "rmdir", "clean"}

Stop ==
    /\ pc' = "stopped"
    /\ failedAt' = pc
    /\ UNCHANGED err

\* The process is killed between two steps, or during a step that has written
\* nothing yet (the fetch resumes its partial downloads itself).
Interrupt ==
    /\ run = 1
    /\ pc \in Running
    /\ Stop
    /\ UNCHANGED <<run, prev, cur, argVars, fsVars, progress_disabled,
                   ign_patterns, startVars, fetchQuiet, histVars, loadVars>>

\* The process is killed while the merge tool writes the merged archive: a
\* truncated merged archive is left.
InterruptMerge ==
    /\ run = 1
    /\ pc = "merge"
    /\ MergeNeeded(CurSource)
    /\ CanMerge(CurSource)
    /\ mergeCalls' = mergeCalls + 1
    /\ arch' = [arch EXCEPT ![CurSource] = @ \cup {MergedZip}]
    /\ badMerged' = badMerged \cup {CurSource}
    /\ Stop
    /\ UNCHANGED <<run, prev, cur, argVars, link, audio, progress_disabled,
                   ign_patterns, startVars, fetchQuiet, logs, extracted, removed,
                   overwritten, loadVars>>

\* The process is killed during extractall: some missing members are written,
\* and one more is written in part.
InterruptExtract ==
    /\ run = 1
    /\ pc = "extract"
    /\ MergedName(CurSource) \in arch[CurSource]
    /\ CurSource \notin badMerged
    /\ LET s == CurSource
           d == audio[s]
       IN
       \E m \in Missing(d) : \E P \in SUBSET (Missing(d) \ {m}) :
          /\ audio' = [audio EXCEPT ![s] =
                         [d EXCEPT !.sub = TRUE,
                                   !.src = SrcFound(d) \cup P \cup {m},
                                   !.part = d.part \cup {m}]]
          /\ extracted' = extracted \cup {<<s, x>> : x \in P}
    /\ Stop
    /\ UNCHANGED <<run, prev, cur, argVars, link, arch, badMerged,
                   progress_disabled, ign_patterns, startVars, fetchQuiet, logs,
                   mergeCalls, removed, overwritten, loadVars>>

\* The process is killed during the loop of renames: some files are moved.
InterruptMove ==
    /\ run = 1
    /\ pc = "move"
    /\ LET s == CurSource
           d == audio[s]
       IN
       \E P \in SUBSET ToMove(d) :
          /\ P # {}
          /\ P # ToMove(d)
          /\ audio' = [audio EXCEPT ![s] =
                         [d EXCEPT !.tgt = d.tgt \cup P, !.src = d.src \ P]]
          /\ overwritten' = overwritten \cup {<<s, m>> : m \in P \cap d.tgt}
    /\ Stop
    /\ UNCHANGED <<run, prev, cur, argVars, link, arch, badMerged,
                   progress_disabled, ign_patterns, startVars, fetchQuiet, logs,
                   mergeCalls, extracted, removed, loadVars>>

\* The caller invokes _prepare_wavcaps_dataset again with the same arguments.
Rerun ==
    /\ run = 1
    /\ pc \in {"stopped", "done"}
    /\ run' = 2
    /\ prev' = pc
    /\ pc' = "precheck"
    /\ err' = "none"
    /\ failedAt' = "none"
    /\ cur' = 1
    /\ ign_patterns' = {}
    /\ link0' = link
    /\ pbar0' = progress_disabled
    /\ startComplete' = AllComplete(VisibleAudio, subset)
    /\ UNCHANGED startHealthy
    /\ fetchQuiet' = FALSE
    /\ logs' = {}
    /\ mergeCalls' = 0
    /\ extracted' = {}
    /\ removed' = {}
    /\ overwritten' = {}
    /\ UNCHANGED <<argVars, fsVars, progress_disabled, loadVars>>

Next ==
    \/ PreCheck
    \/ Fetch
    \/ LinkStep
    \/ Merge
    \/ Extract
    \/ Move
    \/ Verify
    \/ Rmdir
    \/ Clean
    \/ Interrupt
    \/ InterruptMerge
    \/ InterruptExtract
    \/ InterruptMove
    \/ Rerun

Spec == Init /\ [][Next]_vars

(***************************************************************************)
(* Properties of the preparation                                           *)
(***************************************************************************)

Ended == pc \in {"done", "failed"}

\* A call on a healthy root, left alone, fails only if the fetch fails.
HealthyRunsToEnd ==
    (run = 1 /\ startHealthy /\ pc = "failed") => err = "FetchError"

\* Nothing is downloaded yet: no used source has an audio directory with an
\* entry in it.
NothingDownloaded ==
    \A s \in Active(subset) :
        ~VisibleAudio[s].dir \/ NumEntries(VisibleAudio[s]) = 0

\* C1 (as claimed): a call on a root where nothing is downloaded yet is not
\* rejected by the pre-flight check; it goes on to the fetch.  The pre-flight
\* check changes no file, so a call that failed in it still sees the root it
\* was given.
C1_FreshRootPassesPreflight ==
    (pc = "failed" /\ failedAt = "precheck") => ~NothingDownloaded

\* C2 (as claimed): a repeated call on a root whose used sources are fully
\* extracted invokes the merge tool zero times and extracts zero members,
\* whatever the flags of the earlier call.
C2_RerunMergesAndExtractsNothing ==
    (run = 2 /\ prev = "done" /\ startComplete)
        => (mergeCalls = 0 /\ extracted = {})

\* C3 (as claimed): after an interrupted call on a root on which the call left
\* alone succeeds, the repeated call ends without error (a failing fetch set
\* aside) and every used source's audio directory holds every member of its
\* archive as a complete file.
C3_InterruptedRunResumes ==
    (run = 2 /\ prev = "stopped" /\ startHealthy /\ Ended /\ err # "FetchError")
        => /\ pc = "done"
           /\ \A s \in Active(subset) :
                 /\ Members \subseteq audio[s].tgt
                 /\ audio[s].part = {}

\* C4 (as claimed): no ignore pattern handed to the fetch matches a JSON or
\* archive file of a source the subset uses.
C4_NoPatternHitsActiveSource ==
    \A s \in Active(subset) :
        \A f \in JsonPaths(s) \cup ArchivePaths(s) : ~Ignored(ign_patterns, f)

\* C5 (as claimed): a call that finds root/WavCaps a symbolic link to something
\* other than the current snapshot, whether that target still exists ("old") or
\* not ("dangling"), logs the replacement and leaves the link on the current
\* snapshot (a root refused as not prepared and a failing fetch set aside).
C5_StaleLinkReplaced ==
    (link0 \in {"old", "dangling"} /\ Ended
       /\ err \notin {"NotPrepared", "FetchError"})
        => (link = "cur" /\ <<"link_replaced", "none">> \in logs)

\* The expected filename set and the set found in the audio directory differ.
SetsDiffer(d) == d.tgt # Members \/ d.sub

\* C6 (as claimed): with verification requested, the verification of a source
\* raises the missing-files error exactly when the expected filename set and
\* the filename set found in the source's audio directory differ.
C6_VerifyFailsIffSetsDiffer ==
    [][(pc = "verify" /\ verify_files /\ pc' # "stopped")
         => ((pc' = "failed" /\ err' = "MissingFiles")
                <=> SetsDiffer(audio[CurSource]))]_vars

\* C6 (amended): with verification requested, the verification of a source
\* raises the missing-files error exactly when some expected filename is not
\* among the names found in the source's audio directory; entries beyond the
\* expected ones do not raise it.
C6_VerifyFailsIffExpectedMissing ==
    [][(pc = "verify" /\ verify_files /\ pc' # "stopped")
         => ((pc' = "failed" /\ err' = "MissingFiles")
                <=> ~(Members \subseteq audio[CurSource].tgt))]_vars

\* C6 witness: a verification that passed although the two sets differ.
C6_Witness ==
    /\ pc = "rmdir"
    /\ verify_files
    /\ SetsDiffer(audio[CurSource])
    /\ 0 \in audio[CurSource].tgt

\* Every used source's audio directory exists and holds the expected number of
\* entries.
CountsEqual ==
    \A s \in Active(subset) :
        VisibleAudio[s].dir /\ NumEntries(VisibleAudio[s]) = EXPECTED_SIZES[s]

\* C7 (as claimed): in every state of the filesystem _is_prepared returns true
\* if the counts of all used sources are the expected ones, and otherwise
\* returns false naming a failing source, and ends in no other way.
C7_IsPreparedIsTotal ==
    LET r == _is_prepared(VisibleAudio, subset) IN
    /\ (r.res = "true") <=> CountsEqual
    /\ ~CountsEqual => (r.res = "false" /\ r.src \in Active(subset))

\* The fetch step has been taken in this call.
PastFetch ==
    \/ pc \in {"link", "merge", "extract", "move", "verify", "rmdir", "clean", "done"}
    \/ pc = "failed" /\ failedAt # "precheck"

\* C8 (as claimed): the fetch runs with progress output off when verbose <= 0,
\* and after the fetch step, returned or raised, the progress-display switch
\* is what it was when the call started.
C8_ProgressSuppressedAndRestored ==
    PastFetch => /\ (verbose <= 0 => fetchQuiet)
                 /\ progress_disabled = pbar0

\* The multi-part and merged archive files of a source still on disk.
ArchivesLeft(s) == arch[s] \cap {MainZip, PartZip, MergedZip}

\* C9: with clean-up requested, archive files are deleted only in the clean-up
\* step, which a call reaches only after every used source was merged,
\* extracted, moved, verified and rid of its sub-directory; a call that ends
\* there has deleted every multi-part and merged archive file of every used
\* source, and never one of a source the subset does not use.
C9_CleanupOnlyAfterSuccess ==
    /\ [](/\ removed # {} =>
               /\ pc = "done"
               /\ clean_archives
               /\ \A s \in Active(subset) :
                     Members \subseteq audio[s].tgt /\ ~audio[s].sub
          /\ \A x \in removed : x[1] \in Active(subset)
          /\ (pc = "done" /\ clean_archives) =>
                \A s \in Active(subset) : ArchivesLeft(s) = {})
    /\ [][(\E s \in SOURCES : ~(arch[s] \subseteq arch'[s]))
            => /\ pc = "clean"
               /\ pc' = "done"
               /\ clean_archives
               /\ \A s \in SOURCES \ Active(subset) : arch'[s] = arch[s]]_vars

\* C9 witness: a call on the combined subset that ended with the archives of
\* its three sources deleted and the unused source's archives in place.
C9_Witness ==
    /\ pc = "done"
    /\ clean_archives
    /\ subset = "as_bbc_sb"
    /\ {x[1] : x \in removed} = Active(subset)
    /\ ArchivesLeft("FreeSound") # {}

(***************************************************************************)
(* _load_wavcaps_dataset                                                   *)
(***************************************************************************)

\* _WavCapsRawItem: the keys of a raw record
RequiredKeys == {"caption", "duration", "id"}

_WAVCAPS_RAW_COLUMNS ==
    RequiredKeys \cup {"audio", "author", "description", "download_link",
                       "file_name", "href", "tags"}

\* _DEFAULT_VALUES.keys()
DefaultKeys == {"author", "description", "download_link", "href", "tags"}

DefaultValue == <<"default", 0>>

\* The key sets Init draws a JSON record's keys from: the required keys, or
\* those without the duration, and any of three optional keys and one key the
\* loader does not know.
KeySets ==
    {base \cup opt : base \in {RequiredKeys, RequiredKeys \ {"duration"}},
                     opt \in SUBSET {"file_name", "author", "audio", "title"}}

RECURSIVE SeqsUpTo(_, _)
SeqsUpTo(S, n) ==
    IF n = 0 THEN {<<>>}
    ELSE SeqsUpTo(S, n - 1)
         \cup {Append(q, x) : q \in {r \in SeqsUpTo(S, n - 1) : Len(r) = n - 1},
                              x \in S}

\* The contents of one source's JSON file: its records, each given by its keys.
JsonStates == SeqsUpTo(KeySets, MaxRecords)

\* list_dict_to_dict_list(data, key_mode="same"): the records must share their
\* keys; the columns are those keys, each of the length of the list.
SameKeys(recs) == \A i \in 1..Len(recs) : recs[i] = recs[1]

ColumnKeys(recs) == IF recs = <<>> THEN {} ELSE recs[1]

\* One column of a source's JSON: the value of key k in every record.
Column(s, recs, k) == [i \in 1..Len(recs) |-> <<s, i>>]

\* [default_val] * size
Defaults(size) == [i \in 1..size |-> DefaultValue]

\* lines 326-344: the filenames built from the ids
Fnames(s, recs) == [i \in 1..Len(recs) |-> <<s, i>>]

\* lines 349-359: what one source appends to column k, or "raise"
Appended(s, recs, k) ==
    LET json_data == ColumnKeys(recs) \ {"audio"} IN
    IF k \in json_data THEN Column(s, recs, k)
    ELSE IF k \in DefaultKeys THEN Defaults(Len(recs))
    ELSE <<>>

\* line 359: a column that is neither in the JSON, nor defaulted, nor passed
InvalidColumn(recs) ==
    \E k \in _WAVCAPS_RAW_COLUMNS :
        /\ k \notin ColumnKeys(recs) \ {"audio"}
        /\ k \notin DefaultKeys
        /\ k \notin {"audio", "file_name"}

\* Popped, were file_name kept.
PoppedOnlyAudio == {"audio"}

\* lines 363-364: the columns dropped from the table
Popped == {"audio", "file_name"}

LoadFail ==
    /\ loadPc' = "failed"
    /\ UNCHANGED <<li, raw_data>>

\* lines 320-361: one source's JSON appended to the table
LoadSource ==
    /\ loadPc = "loop"
    /\ li <= Len(ActiveSeq(loadSubset))
    /\ LET s == ActiveSeq(loadSubset)[li]
           recs == json[s]
       IN
       IF ~SameKeys(recs) \/ "id" \notin ColumnKeys(recs) \/ InvalidColumn(recs)
       THEN LoadFail
       ELSE /\ raw_data' =
                 [k \in DOMAIN raw_data |->
                    IF k = "fname" THEN raw_data[k] \o Fnames(s, recs)
                    ELSE IF k = "source"
                         THEN raw_data[k] \o [i \in 1..Len(recs) |-> <<s, 0>>]
                         ELSE raw_data[k] \o Appended(s, recs, k)]
            /\ li' = li + 1
            /\ UNCHANGED loadPc
    /\ UNCHANGED <<loadSubset, json>>

\* lines 363-371: drop the two columns, rename and wrap the captions
LoadFinish ==
    /\ loadPc = "loop"
    /\ li > Len(ActiveSeq(loadSubset))
    /\ raw_data' =
         [k \in ((DOMAIN raw_data) \ (Popped \cup {"caption"})) \cup {"captions"} |->
            IF k = "captions"
            THEN [i \in 1..Len(raw_data["caption"]) |-> <<raw_data["caption"][i]>>]
            ELSE raw_data[k]]
    /\ loadPc' = "done"
    /\ UNCHANGED <<li, loadSubset, json>>

\* The JSON of a source as distributed, with the keys every source has.
PlainJson == <<RequiredKeys \cup {"audio"}>>

\* The preparation is not running.
PrepIdle ==
    /\ pc = "idle" /\ err = "none" /\ failedAt = "none" /\ run = 1
    /\ prev = "none" /\ cur = 1
    /\ subset = loadSubset /\ verify_files = FALSE /\ clean_archives = FALSE
    /\ verbose = 0
    /\ link = "cur"
    /\ audio = [s \in SOURCES |-> CompleteDir]
    /\ arch = [s \in SOURCES |-> FullArch(s)]
    /\ badMerged = {}
    /\ progress_disabled = FALSE
    /\ ign_patterns = {}
    /\ link0 = "cur" /\ pbar0 = FALSE /\ startComplete = TRUE
    /\ startHealthy = TRUE
    /\ fetchQuiet = FALSE
    /\ logs = {} /\ mergeCalls = 0 /\ extracted = {} /\ removed = {}
    /\ overwritten = {}

\* The JSON file of one used source is drawn from every content; the other
\* used sources hold one record with the common keys.
InitLoad ==
    /\ loadSubset \in SubsetArgs
    /\ \E v \in (IF Active(loadSubset) = {} THEN {"none"} ELSE Active(loadSubset)) :
       \E j \in JsonStates :
          json = [s \in SOURCES |-> IF s = v THEN j ELSE PlainJson]
    /\ loadPc = "loop"
    /\ li = 1
    /\ raw_data = [k \in _WAVCAPS_RAW_COLUMNS \cup {"source", "fname"} |-> <<>>]
    /\ PrepIdle

prepVars == <<pc, err, failedAt, run, prev, cur, argVars, fsVars,
              progress_disabled, ign_patterns, startVars, fetchQuiet, histVars>>

NextLoad ==
    \/ LoadSource /\ UNCHANGED prepVars
    \/ LoadFinish /\ UNCHANGED prepVars

SpecLoad == InitLoad /\ [][NextLoad]_vars

\* The number of records of the used sources' JSON files.
RECURSIVE TotalRecords(_)
TotalRecords(seq) ==
    IF seq = <<>> THEN 0 ELSE Len(json[Head(seq)]) + TotalRecords(Tail(seq))

\* C10: when _load_wavcaps_dataset returns, every column of the table it
\* returns has the same length, the sum of the record counts of the used
\* sources' JSON files.
C10_ColumnsHaveTotalLength ==
    loadPc = "done" =>
        \A k \in DOMAIN raw_data :
            Len(raw_data[k]) = TotalRecords(ActiveSeq(loadSubset))

\* C10 witness: the loader returned a table over three sources, one of whose
\* JSON files carries file_name, which the others omit.
C10_Witness ==
    /\ loadPc = "done"
    /\ loadSubset = "as_bbc_sb"
    /\ \E s \in Active(loadSubset) :
          /\ Len(json[s]) = MaxRecords
          /\ "file_name" \in ColumnKeys(json[s])
    /\ \E s \in Active(loadSubset) : "file_name" \notin ColumnKeys(json[s])
    /\ Len(raw_data["captions"]) = MaxRecords + 2

(***************************************************************************)
(* Properties of the resolver and of the extract and move steps            *)
(***************************************************************************)

\* The documented source set of each subset.
DocumentedSources(sub) ==
    CASE sub = "as" -> {"AudioSet_SL"}
      [] sub = "bbc" -> {"BBC_Sound_Effects"}
      [] sub = "fsd" -> {"FreeSound"}
      [] sub = "sb" -> {"SoundBible"}
      [] sub = "as_bbc_sb" -> {"AudioSet_SL", "BBC_Sound_Effects", "SoundBible"}
      [] OTHER -> {}

\* C11 (as claimed): for the subset a call is given, _use_source activates
\* exactly the documented sources; a subset for which it activates any source
\* is one of the declared subsets (WavCapsCard.SUBSETS); and a source that is
\* not one of WavCaps.SOURCES is active for no subset.
C11_ResolverMatchesDeclaredSubsets ==
    /\ Active(subset) = DocumentedSources(subset)
    /\ (\E s \in SOURCES : _use_source(s, subset)) => subset \in SUBSETS
    /\ \A sub \in SubsetArgs : ~_use_source("unknown_source", sub)

\* C12 (as claimed): for the source at hand, the extract step extracts exactly
\* the archive members found neither at the archive-internal subpath nor in
\* the target directory; after the move step every member is in the target
\* directory and none is left at the subpath; and the move replaces no file
\* that was in the target directory already.
C12_ExtractMissingMoveWithoutOverwrite ==
    /\ [][(pc = "extract" /\ pc' = "move") =>
            extracted' \ extracted =
               {<<CurSource, m>> : m \in
                   {x \in Members :
                      /\ ~(audio[CurSource].sub /\ x \in audio[CurSource].src)
                      /\ x \notin audio[CurSource].tgt}}]_vars
    /\ [](pc = "verify" =>
            /\ Members \subseteq audio[CurSource].tgt
            /\ audio[CurSource].src \cap Members = {})
    /\ [](pc \in {"verify", "rmdir", "clean", "done"} => overwritten = {})

====
